---- MODULE Spec2Model ----
(***************************************************************************)
(* Model of the Monte Carlo core of src/barista.py: run_monte_carlo, the   *)
(* st.cache_data memoisation in front of it, numpy's global generator and  *)
(* the call site under the "Run simulation" button.                        *)
(*                                                                         *)
(* Numbers.  Balances are Python floats.  Every amount of the model is a   *)
(* small integer and every rate a whole multiple of 100 %, so each product *)
(* and sum of the code is exact in binary floating point and integer       *)
(* arithmetic computes the same values.  mean_return and return_vol are in *)
(* percent, as in the code, and are divided by 100 where the code does.    *)
(***************************************************************************)
EXTENDS Integers, Sequences, FiniteSets, TLC

\* ---------------------------------------------------------------- bounds
MaxAge == 1        \* ages range over 0..MaxAge in Spec
MaxAgeCall == 3    \* ages range over 0..MaxAgeCall in SpecCall and SpecPaths
MaxSims == 2       \* n_sims ranges over 1..MaxSims
MaxCalls == 2      \* clicks of "Run simulation" in one behaviour
RngPeriod == 3     \* number of states of the abstract generator

\* Python's None for the seed argument (line 28: seed: int | None = None).
NoSeed == -1

SavingsSet == {0, 2}
ContribFullSet == {0, 3}
ContribBaristaSet == {1}
WithdrawSet == {1, 50}
MeanSet == {0, 100}
VolSet == {0, 100}
SeedInputs == {0, 1, 2}
RngStates == 0..(RngPeriod - 1)
RateSet == {-2, -1, 0, 1}

\* The arguments of run_monte_carlo other than seed, as the sidebar hands
\* them over: each age input has the previous one as its minimum.
ParamSet(Ages) ==
  { p \in [current_age : Ages, coast_age : Ages, retire_age : Ages,
           life_expectancy : Ages, current_savings : SavingsSet,
           contrib_full : ContribFullSet, contrib_barista : ContribBaristaSet,
           withdraw_retire : WithdrawSet, mean_return : MeanSet,
           return_vol : VolSet, n_sims : 1..MaxSims] :
      /\ p.current_age <= p.coast_age
      /\ p.coast_age <= p.retire_age
      /\ p.retire_age <= p.life_expectancy }

VARIABLES
  params,           \* the sidebar's values, arguments of every call
  rng,              \* state of numpy's global generator
  cache,            \* st.cache_data's store: argument tuple -> returned pair
  pc,               \* "idle", "loop", "full", "fullDone", "ret", "retDone", "done"
  calls,            \* clicks so far
  seed,             \* the seed argument of the call in progress
  i,                \* trial index (-1 before the first trial)
  year,             \* loop variable of the running year loop
  bal, bal_ret,     \* the two balances
  r,                \* the return last drawn
  final_balances, retire_balances,   \* the arrays being filled
  finals, retires,  \* the call site's results
  hist,             \* every completed call: its seed and what it returned
  drawn,            \* draws made in this trial by each loop
  hitZero,          \* per loop: the draw at which growth and cash flow first gave <= 0
  raw,              \* the balance after growth and cash flow, before the depletion test
  cut,              \* the full loop's balance after its first years_to_retire years
  writers,          \* per array index, the trials that wrote it
  rs                \* a prescribed sequence of returns (SpecPaths only)

vars == <<params, rng, cache, pc, calls, seed, i, year, bal, bal_ret, r,
          final_balances, retire_balances, finals, retires, hist, drawn,
          hitZero, raw, cut, writers, rs>>

\* ------------------------------------------------------- pure operators
YearsTotal(p) == p.life_expectancy - p.current_age
YearsToRetire(p) == p.retire_age - p.current_age

Zeros(n) == [k \in 0..(n - 1) |-> 0]
EmptyCache == [k \in {} |-> 0]

\* The generator: np.random.seed fixes the state, each draw advances it and
\* yields a standard normal deviate that is a function of the state.
SeedState(s) == s % RngPeriod
RngNext(s) == (s + 1) % RngPeriod
Gauss(s) == ((3 * s) % 4) - 2
\* mutant: the deviate is not scaled by the standard deviation
NormalUnscaled(loc, scale, s) == loc + Gauss(s)

Normal(loc, scale, s) == loc + scale * Gauss(s)

\* the return drawn from generator state s
Draw(p, s) == Normal(p.mean_return \div 100, p.return_vol \div 100, s)

\* mutant: the seed is never applied
SeedGuardNever(sd) == FALSE

\* mutant: "if seed != 0", which passes None on to np.random.seed
SeedGuardOnlyZero(sd) == sd # 0

\* if seed is not None and seed != 0
SeedGuard(sd) == sd # NoSeed /\ sd # 0

\* seed if seed != 0 else None (line 143)
SeedArg(s) == IF s # 0 THEN s ELSE NoSeed

\* mutant: bal *= r
GrowNoPrincipal(b, rr) == b * rr

\* bal *= (1 + r)
Grow(b, rr) == b * (1 + rr)

\* mutant: the barista years run through retire_age itself
FullCashLateWithdrawal(p, age) ==
  IF age < p.coast_age THEN p.contrib_full
  ELSE IF age <= p.retire_age THEN p.contrib_barista
  ELSE 0 - p.withdraw_retire

\* the cash flow of the full-horizon loop (lines 48-53)
FullCash(p, age) ==
  IF age < p.coast_age THEN p.contrib_full
  ELSE IF age < p.retire_age THEN p.contrib_barista
  ELSE 0 - p.withdraw_retire

\* mutant: the retirement loop always adds the barista contribution
RetCashFlat(p, age) == p.contrib_barista

\* the cash flow of the retirement-horizon loop (lines 65-68)
RetCash(p, age) ==
  IF age < p.coast_age THEN p.contrib_full ELSE p.contrib_barista

\* mutant: the loop stops but the balance is not set to 0
DepleteNoClamp(b) == [bal |-> b, brk |-> b <= 0]

\* mutant: the balance is set to 0 but the loop goes on
DepleteNoBreak(b) == [bal |-> IF b <= 0 THEN 0 ELSE b, brk |-> FALSE]

\* if bal <= 0: bal = 0.0; break
Deplete(b) ==
  IF b <= 0 THEN [bal |-> 0, brk |-> TRUE] ELSE [bal |-> b, brk |-> FALSE]

\* mutant: range(years_total + 1)
FullLoopCondInclusive(y, p) == y <= YearsTotal(p)

\* for year in range(years_total) / range(years_to_retire)
FullLoopCond(y, p) == y < YearsTotal(p)
RetLoopCond(y, p) == y < YearsToRetire(p)

Key(p, sd) == <<p, sd>>
CachePut(c, k, v) == [x \in (DOMAIN c) \cup {k} |-> IF x = k THEN v ELSE c[x]]

NoDraws == [full |-> 0, ret |-> 0]
NoWriters(n) == [final |-> [k \in 0..(n - 1) |-> {}], retire |-> [k \in 0..(n - 1) |-> {}]]

\* mutant: range(n_sims - 1)
MoreTrialsShort(k, p) == k + 1 < p.n_sims - 1

\* for i in range(n_sims): whether a trial follows trial k
MoreTrials(k, p) == k + 1 < p.n_sims

\* ----------------------------------------------------------------- Init
\* A freshly started server: nothing cached, nothing run, the generator in
\* the state the system's entropy gave it.
InitOver(Ages) ==
  /\ params \in ParamSet(Ages)
  /\ rng \in RngStates
  /\ cache = EmptyCache
  /\ pc = "idle"
  /\ calls = 0
  /\ seed = NoSeed
  /\ i = -1
  /\ year = 0
  /\ bal = 0
  /\ bal_ret = 0
  /\ r = 0
  /\ final_balances = Zeros(0)
  /\ retire_balances = Zeros(0)
  /\ finals = Zeros(0)
  /\ retires = Zeros(0)
  /\ hist = <<>>
  /\ drawn = NoDraws
  /\ hitZero = NoDraws
  /\ raw = 0
  /\ cut = 0
  /\ writers = NoWriters(0)
  /\ rs = <<>>

Init == InitOver(0..MaxAge)

\* -------------------------------------------------------------- actions
\* The button with the arguments already in the cache: st.cache_data
\* returns the stored pair and the body does not run.
RunHit(s) ==
  /\ pc \in {"idle", "done"}
  /\ calls < MaxCalls
  /\ Key(params, SeedArg(s)) \in DOMAIN cache
  /\ calls' = calls + 1
  /\ seed' = SeedArg(s)
  /\ finals' = cache[Key(params, SeedArg(s))].final
  /\ retires' = cache[Key(params, SeedArg(s))].retire
  /\ hist' = Append(hist, [seed |-> SeedArg(s), executed |-> FALSE,
                           final |-> finals', retire |-> retires'])
  /\ pc' = "done"
  /\ UNCHANGED <<params, rng, cache, i, year, bal, bal_ret, r, final_balances,
                 retire_balances, drawn, hitZero, raw, cut, writers, rs>>

\* The button with new arguments: the body starts (lines 33-39).
RunMiss(s) ==
  /\ pc \in {"idle", "done"}
  /\ calls < MaxCalls
  /\ Key(params, SeedArg(s)) \notin DOMAIN cache
  /\ calls' = calls + 1
  /\ seed' = SeedArg(s)
  /\ rng' = IF SeedGuard(SeedArg(s)) THEN SeedState(SeedArg(s)) ELSE rng
  /\ final_balances' = Zeros(params.n_sims)
  /\ retire_balances' = Zeros(params.n_sims)
  /\ writers' = NoWriters(params.n_sims)
  /\ i' = -1
  /\ year' = 0
  /\ bal' = 0
  /\ bal_ret' = 0
  /\ r' = 0
  /\ raw' = 0
  /\ cut' = 0
  /\ drawn' = NoDraws
  /\ hitZero' = NoDraws
  /\ pc' = "loop"
  /\ UNCHANGED <<params, cache, finals, retires, hist, rs>>

\* for i in range(n_sims): the next trial starts (lines 41-43).
TrialStart ==
  /\ pc = "loop"
  /\ MoreTrials(i, params)
  /\ i' = i + 1
  /\ bal' = params.current_savings
  /\ year' = 0
  /\ drawn' = NoDraws
  /\ hitZero' = NoDraws
  /\ raw' = params.current_savings
  /\ cut' = params.current_savings
  /\ pc' = "full"
  /\ UNCHANGED <<params, rng, cache, calls, seed, bal_ret, r, final_balances,
                 retire_balances, finals, retires, hist, writers, rs>>

\* One iteration of the full-horizon loop with return rr (lines 44-56).
FullYearWith(rr) ==
  /\ pc = "full"
  /\ FullLoopCond(year, params)
  /\ r' = rr
  /\ LET b == Grow(bal, rr) + FullCash(params, params.current_age + year)
         d == Deplete(b)
     IN /\ raw' = b
        /\ bal' = d.bal
        /\ year' = IF d.brk THEN year ELSE year + 1
        /\ pc' = IF d.brk THEN "fullDone" ELSE "full"
        /\ hitZero' = IF b <= 0 /\ hitZero.full = 0
                      THEN [hitZero EXCEPT !.full = drawn.full + 1] ELSE hitZero
        /\ cut' = IF drawn.full + 1 <= YearsToRetire(params) THEN d.bal ELSE cut
  /\ drawn' = [drawn EXCEPT !.full = @ + 1]
  /\ UNCHANGED <<params, cache, calls, seed, i, bal_ret, final_balances,
                 retire_balances, finals, retires, hist, writers, rs>>

FullYear ==
  /\ FullYearWith(Draw(params, rng))
  /\ rng' = RngNext(rng)

\* The full-horizon loop is over: lines 57 and 60.
FullStore ==
  /\ \/ pc = "fullDone"
     \/ pc = "full" /\ ~FullLoopCond(year, params)
  /\ final_balances' = [final_balances EXCEPT ![i] = bal]
  /\ writers' = [writers EXCEPT !.final[i] = @ \cup {i}]
  /\ bal_ret' = params.current_savings
  /\ year' = 0
  /\ pc' = "ret"
  /\ UNCHANGED <<params, rng, cache, calls, seed, i, bal, r, retire_balances,
                 finals, retires, hist, drawn, hitZero, raw, cut, rs>>

\* One iteration of the retirement-horizon loop with return rr (lines 61-71).
RetYearWith(rr) ==
  /\ pc = "ret"
  /\ RetLoopCond(year, params)
  /\ r' = rr
  /\ LET b == Grow(bal_ret, rr) + RetCash(params, params.current_age + year)
         d == Deplete(b)
     IN /\ raw' = b
        /\ bal_ret' = d.bal
        /\ year' = IF d.brk THEN year ELSE year + 1
        /\ pc' = IF d.brk THEN "retDone" ELSE "ret"
        /\ hitZero' = IF b <= 0 /\ hitZero.ret = 0
                      THEN [hitZero EXCEPT !.ret = drawn.ret + 1] ELSE hitZero
  /\ drawn' = [drawn EXCEPT !.ret = @ + 1]
  /\ UNCHANGED <<params, cache, calls, seed, i, bal, final_balances,
                 retire_balances, finals, retires, hist, cut, writers, rs>>

RetYear ==
  /\ RetYearWith(Draw(params, rng))
  /\ rng' = RngNext(rng)

\* The retirement-horizon loop is over: line 72.
RetStore ==
  /\ \/ pc = "retDone"
     \/ pc = "ret" /\ ~RetLoopCond(year, params)
  /\ retire_balances' = [retire_balances EXCEPT ![i] = bal_ret]
  /\ writers' = [writers EXCEPT !.retire[i] = @ \cup {i}]
  /\ pc' = "loop"
  /\ UNCHANGED <<params, rng, cache, calls, seed, i, year, bal, bal_ret, r,
                 final_balances, finals, retires, hist, drawn, hitZero, raw,
                 cut, rs>>

\* return final_balances, retire_balances (line 74): the pair is stored in
\* the cache and assigned at the call site (line 131).
Return ==
  /\ pc = "loop"
  /\ ~MoreTrials(i, params)
  /\ cache' = CachePut(cache, Key(params, seed),
                       [final |-> final_balances, retire |-> retire_balances])
  /\ finals' = final_balances
  /\ retires' = retire_balances
  /\ hist' = Append(hist, [seed |-> seed, executed |-> TRUE,
                           final |-> final_balances, retire |-> retire_balances])
  /\ pc' = "done"
  /\ UNCHANGED <<params, rng, calls, seed, i, year, bal, bal_ret, r,
                 final_balances, retire_balances, drawn, hitZero, raw, cut,
                 writers, rs>>

\* The server process is started again: numpy is imported anew, its
\* generator seeded from the system's entropy, and the cache is empty.
Restart ==
  /\ pc = "done"
  /\ calls < MaxCalls
  /\ rng' \in RngStates
  /\ cache' = EmptyCache
  /\ finals' = Zeros(0)
  /\ retires' = Zeros(0)
  /\ pc' = "idle"
  /\ UNCHANGED <<params, calls, seed, i, year, bal, bal_ret, r, final_balances,
                 retire_balances, hist, drawn, hitZero, raw, cut, writers, rs>>

Next ==
  \/ \E s \in SeedInputs : RunHit(s)
  \/ \E s \in SeedInputs : RunMiss(s)
  \/ TrialStart
  \/ FullYear
  \/ FullStore
  \/ RetYear
  \/ RetStore
  \/ Return
  \/ Restart

Spec == Init /\ [][Next]_vars

\* ------------------------------------------------- one call, wider ages
\* The first call of a freshly started server: the body runs once.
CallOnce(s) ==
  /\ calls = 0
  /\ RunMiss(s)

InitCall == InitOver(0..MaxAgeCall)

NextCall ==
  \/ \E s \in SeedInputs : CallOnce(s)
  \/ TrialStart
  \/ FullYear
  \/ FullStore
  \/ RetYear
  \/ RetStore
  \/ Return

SpecCall == InitCall /\ [][NextCall]_vars

\* ---------------------------------- one trial on a prescribed return tape
\* The two year loops of one trial, each fed the returns rs[1], rs[2], ...
\* in place of the generator's draws.
InitPaths ==
  /\ params \in { p \in ParamSet(0..MaxAgeCall) :
                    p.mean_return = 0 /\ p.return_vol = 0 /\ p.n_sims = 1 }
  /\ rs \in [1..MaxAgeCall -> RateSet]
  /\ rng = 0
  /\ cache = EmptyCache
  /\ pc = "loop"
  /\ calls = 1
  /\ seed = NoSeed
  /\ i = -1
  /\ year = 0
  /\ bal = 0
  /\ bal_ret = 0
  /\ r = 0
  /\ final_balances = Zeros(1)
  /\ retire_balances = Zeros(1)
  /\ finals = Zeros(0)
  /\ retires = Zeros(0)
  /\ hist = <<>>
  /\ drawn = NoDraws
  /\ hitZero = NoDraws
  /\ raw = 0
  /\ cut = 0
  /\ writers = NoWriters(1)

PathFullYear ==
  /\ FullYearWith(rs[drawn.full + 1])
  /\ UNCHANGED rng

PathRetYear ==
  /\ RetYearWith(rs[drawn.ret + 1])
  /\ UNCHANGED rng

NextPaths ==
  \/ TrialStart
  \/ PathFullYear
  \/ FullStore
  \/ PathRetYear
  \/ RetStore

SpecPaths == InitPaths /\ [][NextPaths]_vars

\* =============================================================== claims
SameOutput(a, b) == a.final = b.final /\ a.retire = b.retire

FullOver == i >= 0 /\ pc \in {"ret", "retDone", "loop", "done"}
RetOver == i >= 0 /\ pc \in {"loop", "done"}

\* C1: two calls with identical arguments and a non-zero seed return
\* element-wise identical final_balances and retire_balances, whatever the
\* generator state before each call.
C1_SeededCallsAgree ==
  \A a, b \in DOMAIN hist :
    (hist[a].seed = hist[b].seed /\ hist[a].seed # NoSeed /\ hist[a].seed # 0)
      => SameOutput(hist[a], hist[b])

\* C1 witness: the body ran twice with the same non-zero seed, on random
\* returns, and with a different seed's call between or a restart.
C1_Witness ==
  /\ Len(hist) = 2
  /\ hist[1].executed /\ hist[2].executed
  /\ hist[1].seed = hist[2].seed /\ hist[1].seed # NoSeed
  /\ params.return_vol > 0
  /\ YearsTotal(params) > 0
  /\ \E k \in DOMAIN hist[1].final : hist[1].final[k] > 0

\* C2: every element of final_balances and retire_balances is >= 0, also
\* after a return below -100 %.
C2_NonNegative ==
  /\ \A k \in DOMAIN final_balances : final_balances[k] >= 0
  /\ \A k \in DOMAIN retire_balances : retire_balances[k] >= 0
  /\ \A k \in DOMAIN finals : finals[k] >= 0
  /\ \A k \in DOMAIN retires : retires[k] >= 0
  /\ bal >= 0 /\ bal_ret >= 0

\* C2 witness: a return below -100 % drove the balance negative and the
\* trial recorded 0.
C2_Witness ==
  /\ pc = "ret" /\ drawn.ret = 0
  /\ r < -1
  /\ raw < 0
  /\ final_balances[i] = 0

\* C3: once growth and cash flow leave a balance <= 0 the path stops: no
\* later year is stepped, no further return is drawn for that path, and the
\* value recorded for the trial is exactly 0.
C3_DepletionIsTerminal ==
  /\ hitZero.full > 0 =>
       /\ drawn.full = hitZero.full
       /\ pc \in {"full", "fullDone"} => (pc = "fullDone" /\ bal = 0)
       /\ FullOver => final_balances[i] = 0
  /\ hitZero.ret > 0 =>
       /\ drawn.ret = hitZero.ret
       /\ pc \in {"ret", "retDone"} => (pc = "retDone" /\ bal_ret = 0)
       /\ RetOver => retire_balances[i] = 0

\* C3 witness: the full path was depleted in its first year with years of
\* contributions still ahead, and the retirement path was depleted too.
C3_Witness ==
  /\ pc = "loop" /\ i >= 0
  /\ hitZero.full = 1
  /\ params.retire_age > params.current_age + 1
  /\ params.contrib_barista > 0
  /\ final_balances[i] = 0
  /\ hitZero.ret > 0
  /\ retire_balances[i] = 0

\* withdraw_retire is far larger than current_savings
FarLarger(p) ==
  /\ p.withdraw_retire > p.current_savings
  /\ p.withdraw_retire >= 25 * p.current_savings

\* C4 as stated: with mean_return = 0, return_vol = 0 and withdraw_retire
\* far larger than current_savings, every trial's final balance is 0.
C4_AsStated ==
  (pc = "done" /\ params.mean_return = 0 /\ params.return_vol = 0 /\ FarLarger(params))
    => \A k \in DOMAIN finals : finals[k] = 0

\* the contributions made before retire_age
Contributed(p) ==
  p.contrib_full * (p.coast_age - p.current_age)
    + p.contrib_barista * (p.retire_age - p.coast_age)

\* C4 amended: with mean_return = 0 and return_vol = 0, at least one year
\* of retirement (life_expectancy > retire_age) and withdraw_retire at least
\* current_savings plus all contributions made before retire_age, every
\* trial's final balance is 0.
C4_DepletionGuaranteed ==
  (/\ pc = "done"
   /\ params.mean_return = 0 /\ params.return_vol = 0
   /\ params.life_expectancy > params.retire_age
   /\ params.withdraw_retire >= params.current_savings + Contributed(params))
    => \A k \in DOMAIN finals : finals[k] = 0

\* C4 witness: savings and contributions were built up before retirement
\* and the first withdrawal took all of it.
C4_Witness ==
  /\ pc = "done"
  /\ params.mean_return = 0 /\ params.return_vol = 0
  /\ params.life_expectancy > params.retire_age
  /\ params.retire_age > params.coast_age
  /\ params.coast_age > params.current_age
  /\ params.current_savings > 0 /\ params.contrib_full > 0
  /\ FarLarger(params)
  /\ params.n_sims = 2
  /\ finals[0] = 0 /\ finals[1] = 0
  /\ retires[0] > params.current_savings

\* The fixed-rate rule applied year by year: growth at mean_return/100, the
\* cash flow of the age, then clamp at 0 and stop.
RECURSIVE RefFull(_, _, _)
RefFull(p, b, y) ==
  IF y >= p.life_expectancy - p.current_age THEN b
  ELSE LET age == p.current_age + y
           g == b + b * (p.mean_return \div 100)
           c == IF age < p.coast_age THEN g + p.contrib_full
                ELSE IF age < p.retire_age THEN g + p.contrib_barista
                ELSE g - p.withdraw_retire
       IN IF c <= 0 THEN 0 ELSE RefFull(p, c, y + 1)

RECURSIVE RefRet(_, _, _)
RefRet(p, b, y) ==
  IF y >= p.retire_age - p.current_age THEN b
  ELSE LET age == p.current_age + y
           g == b + b * (p.mean_return \div 100)
           c == IF age < p.coast_age THEN g + p.contrib_full
                ELSE g + p.contrib_barista
       IN IF c <= 0 THEN 0 ELSE RefRet(p, c, y + 1)

\* C5: with return_vol = 0 every trial's final balance and every trial's
\* retirement balance equals the value of the fixed-rate year-by-year rule.
C5_ZeroVolatility ==
  (pc = "done" /\ params.return_vol = 0) =>
     /\ \A k \in DOMAIN finals : finals[k] = RefFull(params, params.current_savings, 0)
     /\ \A k \in DOMAIN retires : retires[k] = RefRet(params, params.current_savings, 0)

\* C5 witness: two trials over three years at 100 % with all three cash
\* flows, ending with money left.
C5_Witness ==
  /\ pc = "done"
  /\ params.return_vol = 0 /\ params.mean_return = 100
  /\ params.n_sims = 2
  /\ YearsTotal(params) = 3
  /\ params.current_age < params.coast_age
  /\ params.coast_age < params.retire_age
  /\ params.retire_age < params.life_expectancy
  /\ finals[0] > 0 /\ finals[1] = finals[0]
  /\ retires[1] > 0

\* C6: every year stepped by the full-horizon loop multiplies the balance
\* by (1 + r) and then applies exactly one cash flow chosen by
\* age = current_age + year: contrib_full below coast_age, contrib_barista
\* from coast_age to below retire_age, minus withdraw_retire from retire_age.
C6_GrowthThenCashFlow ==
  [][ (pc = "full" /\ drawn' # drawn) =>
        LET age == params.current_age + year
            grown == bal * (1 + r')
        IN /\ age < params.coast_age => raw' = grown + params.contrib_full
           /\ (params.coast_age <= age /\ age < params.retire_age)
                => raw' = grown + params.contrib_barista
           /\ age >= params.retire_age => raw' = grown - params.withdraw_retire
           /\ age < params.retire_age => raw' >= grown
           /\ age >= params.retire_age => raw' < grown ]_vars

\* C6 witness: a third year, at retire_age, took the withdrawal from a
\* balance that had grown and received both contributions before.
C6_Witness ==
  /\ pc = "full"
  /\ drawn.full = 3
  /\ params.current_age < params.coast_age
  /\ params.coast_age < params.retire_age
  /\ params.contrib_full > 0
  /\ r = 1
  /\ raw = bal /\ bal > params.current_savings

\* C7: a loop of zero years leaves the balance at current_savings: no draw
\* is made and no depletion test applied; with all three ages equal both
\* results are current_savings in every trial.
C7_ZeroYears ==
  /\ (YearsTotal(params) <= 0 /\ FullOver) =>
       (final_balances[i] = params.current_savings /\ drawn.full = 0 /\ hitZero.full = 0)
  /\ (YearsToRetire(params) <= 0 /\ RetOver) =>
       (retire_balances[i] = params.current_savings /\ drawn.ret = 0 /\ hitZero.ret = 0)
  /\ (/\ pc = "done"
      /\ params.current_age = params.retire_age
      /\ params.retire_age = params.life_expectancy) =>
       /\ \A k \in DOMAIN finals : finals[k] = params.current_savings
       /\ \A k \in DOMAIN retires : retires[k] = params.current_savings

\* C7 witness: all ages equal, two trials, both results the savings.
C7_Witness ==
  /\ pc = "done"
  /\ params.current_age = params.life_expectancy
  /\ params.current_savings > 0
  /\ params.n_sims = 2
  /\ finals[1] = params.current_savings
  /\ retires[1] = params.current_savings
  /\ drawn = NoDraws

\* C8 as stated: two successive calls with identical arguments and no seed
\* do not return the same output.
C8_AsStated ==
  \A a \in DOMAIN hist :
    (a + 1 \in DOMAIN hist /\ hist[a].seed = NoSeed /\ hist[a + 1].seed = NoSeed)
      => ~SameOutput(hist[a], hist[a + 1])

\* C8 amended: a call without a seed does not reseed the generator, so a
\* call that runs the body draws from the state earlier calls or the start
\* of the process left, and its output may differ from an earlier one; a
\* call whose arguments are in the cache returns the cached output and
\* leaves the generator alone.
C8_UnseededCall ==
  [][ (pc \in {"idle", "done"} /\ calls' = calls + 1 /\ seed' = NoSeed) =>
        /\ rng' = rng
        /\ Key(params, NoSeed) \in DOMAIN cache =>
             (pc' = "done" /\ SameOutput([final |-> finals', retire |-> retires'],
                                         cache[Key(params, NoSeed)]))
        /\ Key(params, NoSeed) \notin DOMAIN cache => pc' = "loop" ]_vars

\* C8 witness: the body ran twice without a seed and returned two
\* different outputs.
C8_Witness ==
  /\ Len(hist) = 2
  /\ hist[1].seed = NoSeed /\ hist[2].seed = NoSeed
  /\ hist[1].executed /\ hist[2].executed
  /\ ~SameOutput(hist[1], hist[2])

\* C9: a call returns only after all n_sims trials, with two sequences of
\* length exactly n_sims whose index k was written by trial k and by no
\* other trial.
C9_FullLength ==
  /\ pc = "done" =>
       /\ DOMAIN finals = 0..(params.n_sims - 1)
       /\ DOMAIN retires = 0..(params.n_sims - 1)
  /\ (pc = "done" /\ hist[Len(hist)].executed) =>
       /\ i = params.n_sims - 1
       /\ finals = final_balances /\ retires = retire_balances
       /\ \A k \in 0..(params.n_sims - 1) :
            writers.final[k] = {k} /\ writers.retire[k] = {k}

\* C9 witness: a call of two trials returned two different final balances.
C9_Witness ==
  /\ pc = "done"
  /\ hist[Len(hist)].executed
  /\ params.n_sims = 2
  /\ finals[0] # finals[1]
  /\ retires[0] # retires[1]

\* C10: fed the same returns, the retirement-horizon loop yields the
\* balance the full-horizon loop holds after its first years_to_retire
\* years (0 if it was depleted within them).
C10_RetirementIsPrefix ==
  RetOver => retire_balances[i] = cut

\* C10 witness: both loops ran through full-time and barista years and the
\* full loop went on into retirement.
C10_Witness ==
  /\ pc = "loop" /\ i = 0
  /\ params.current_age < params.coast_age
  /\ params.coast_age < params.retire_age
  /\ params.retire_age < params.life_expectancy
  /\ params.contrib_full > 0
  /\ drawn.ret = 2 /\ drawn.full = 3
  /\ retire_balances[0] > 0
  /\ final_balances[0] # retire_balances[0]

====
